---- MODULE Spec2Model ----
(***************************************************************************)
(* Model of the credit-transfer handler of controllers/user_controller.go. *)
(*                                                                         *)
(* The shared state is the database: the users table and the transactions  *)
(* table.  Every TransferCredit request is a goroutine of its own; the     *)
(* database calls it makes (First, Save, Save, Create) are the points      *)
(* where requests interleave, the code between two calls works on the      *)
(* request's local copies only.  No call is wrapped in a database          *)
(* transaction and no lock is taken.                                       *)
(*                                                                         *)
(* Credit is a float64 in the source; the model uses integers (credit      *)
(* units), which is exact for the small values used here.                  *)
(*                                                                         *)
(* GetUserByAccount hands the request's string to DB.First as an inline    *)
(* condition; an account reference is modelled by the key that lookup      *)
(* matches (the row's ID), and UnknownRef is a reference matching no row.  *)
(***************************************************************************)
EXTENDS Integers, Sequences, FiniteSets, TLC

\* ------------------------------------------------------------------ bounds
MaxReq == 2                       \* number of TransferCredit requests
Reqs == 1..MaxReq

\* accounts present in the users table before the first request
InitialCredit == <<100, 0>>
InitialIDs == 1..Len(InitialCredit)
UnknownRef == 99                  \* an account reference that matches no row
Refs == InitialIDs \cup {UnknownRef}
Amounts == {-60, 0, 60}           \* amounts a request body may carry

\* --------------------------------------------------------------- the state
VARIABLES
  users,            \* table users: ID -> row (only the Credit column matters)
  transactions,     \* table transactions, in order of insertion
  pc,               \* where each request stands in TransferCredit
  transferRequest,  \* the bound request body of each request
  sender,           \* local variable sender of each request
  receiver,         \* local variable receiver of each request
  response,         \* the response the request has written ("" = none yet)
  saved,            \* history: which of its writes the request has persisted
  solo,             \* history: no other request has stepped since it started
  before,           \* history: users and log length when the request started
  updatePc,         \* where the UpdateUser request stands
  updateUser        \* local variable user of the UpdateUser request

transferVars == <<pc, transferRequest, sender, receiver, response, saved>>
updateVars == <<updatePc, updateUser>>

vars == <<users, transactions, pc, transferRequest, sender, receiver,
          response, saved, solo, before, updatePc, updateUser>>

\* models.User{} : the zero value of a user row (ID 0, Credit 0)
ZeroUser == [ID |-> 0, Credit |-> 0]

NoRequest == [valid |-> FALSE, SenderAccount |-> 0, ReceiverAccount |-> 0, Amount |-> 0]

\* request bodies: a body that fails to bind, or the three fields
Bodies ==
  {NoRequest} \cup
  [valid : {TRUE}, SenderAccount : Refs, ReceiverAccount : Refs, Amount : Amounts]

RECURSIVE SumCredit(_, _)
SumCredit(tbl, ids) ==
  IF ids = {} THEN 0
  ELSE LET id == CHOOSE i \in ids : TRUE
       IN tbl[id].Credit + SumCredit(tbl, ids \ {id})

TotalCredit(tbl) == SumCredit(tbl, DOMAIN tbl)

MaxID(tbl) == CHOOSE m \in DOMAIN tbl : \A i \in DOMAIN tbl : i <= m

\* variant of First: the condition is left out, the first row is returned
FirstNoCondition(tbl, key) ==
  LET id == CHOOSE m \in DOMAIN tbl : \A i \in DOMAIN tbl : m <= i
  IN [user |-> [ID |-> id, Credit |-> tbl[id].Credit], err |-> FALSE]

\* database.DB.First(&user, key): the row, or an error when no row matches
\* (a query that fails for another reason looks the same to the caller)
First(tbl, key) ==
  IF key \in DOMAIN tbl
    THEN [user |-> [ID |-> key, Credit |-> tbl[key].Credit], err |-> FALSE]
    ELSE [user |-> ZeroUser, err |-> TRUE]

\* GetUserByAccount: both branches return the user with a nil error
GetUserByAccount(tbl, account_number) ==
  LET r == First(tbl, account_number)
  IN IF r.err THEN [user |-> r.user, err |-> FALSE]
              ELSE [user |-> r.user, err |-> FALSE]

\* database.DB.Save(&u): a row with a zero primary key is inserted under the
\* next auto-increment ID, any other row is written whole under its ID
SaveID(tbl, u) == IF u.ID = 0 THEN MaxID(tbl) + 1 ELSE u.ID

Save(tbl, u) ==
  LET id == SaveID(tbl, u)
  IN [i \in DOMAIN tbl \cup {id} |->
        IF i = id THEN [Credit |-> u.Credit] ELSE tbl[i]]

\* variants of the check: a transfer of the whole balance is refused; the
\* comparison is turned around
InsufficientOrEqual(s, amount) == s.Credit <= amount
InsufficientInverted(s, amount) == s.Credit > amount

\* sender.Credit < transferRequest.Amount
Insufficient(s, amount) == s.Credit < amount

\* a step of request r ends the undisturbed run of every other request
Interleave(r) == [q \in Reqs |-> q = r /\ solo[q]]

\* the snapshot of a request is kept only as long as no other request steps
NoSnapshot == [users |-> <<>>, ntx |-> 0]
Forget(r) == [q \in Reqs |-> IF q = r THEN before[q] ELSE NoSnapshot]

Respond(r, msg) ==
  /\ response' = [response EXCEPT ![r] = msg]
  /\ pc' = [pc EXCEPT ![r] = "done"]

InitialUsers == [i \in InitialIDs |-> [Credit |-> InitialCredit[i]]]

Init ==
  /\ users = InitialUsers
  /\ transactions = <<>>
  /\ pc = [r \in Reqs |-> "idle"]
  /\ transferRequest = [r \in Reqs |-> NoRequest]
  /\ sender = [r \in Reqs |-> ZeroUser]
  /\ receiver = [r \in Reqs |-> ZeroUser]
  /\ response = [r \in Reqs |-> ""]
  /\ saved = [r \in Reqs |-> {}]
  /\ solo = [r \in Reqs |-> FALSE]
  /\ before = [r \in Reqs |-> NoSnapshot]
  /\ updatePc = "idle"
  /\ updateUser = ZeroUser

\* The request arrives (requests are numbered in the order they arrive):
\* c.ShouldBindJSON(&transferRequest), then
\* sender, err := GetUserByAccount(transferRequest.SenderAccount)
Arrive(r, bodies) ==
  /\ pc[r] = "idle"
  /\ \A q \in Reqs : q < r => pc[q] # "idle"
  /\ \E body \in bodies :
       /\ transferRequest' = [transferRequest EXCEPT ![r] = body]
       /\ IF ~body.valid
            THEN Respond(r, "Bad request") /\ UNCHANGED sender
            ELSE LET res == GetUserByAccount(users, body.SenderAccount)
                 IN IF res.err
                      THEN Respond(r, "Sender not found") /\ UNCHANGED sender
                      ELSE /\ sender' = [sender EXCEPT ![r] = res.user]
                           /\ pc' = [pc EXCEPT ![r] = "getReceiver"]
                           /\ UNCHANGED response
  /\ solo' = [Interleave(r) EXCEPT ![r] = TRUE]
  /\ before' = [Forget(r) EXCEPT ![r] = [users |-> users, ntx |-> Len(transactions)]]
  /\ UNCHANGED <<users, transactions, receiver, saved, updateVars>>

GetSender(r) == Arrive(r, Bodies)

\* variant of GetReceiver: the debited sender is written before the check
GetReceiverDebitFirst(r) ==
  /\ pc[r] = "getReceiver"
  /\ LET res == GetUserByAccount(users, transferRequest[r].ReceiverAccount)
         amount == transferRequest[r].Amount
         debited == [sender[r] EXCEPT !.Credit = @ - amount]
     IN /\ users' = Save(users, debited)
        /\ IF Insufficient(sender[r], amount)
             THEN /\ Respond(r, "Insufficient credit")
                  /\ receiver' = [receiver EXCEPT ![r] = res.user]
                  /\ UNCHANGED sender
             ELSE /\ sender' = [sender EXCEPT ![r] = debited]
                  /\ receiver' = [receiver EXCEPT ![r] =
                                   [res.user EXCEPT !.Credit = @ + amount]]
                  /\ pc' = [pc EXCEPT ![r] = "saveSender"]
                  /\ UNCHANGED response
  /\ solo' = Interleave(r)
  /\ before' = Forget(r)
  /\ UNCHANGED <<transactions, transferRequest, saved, updateVars>>

\* receiver, err := GetUserByAccount(transferRequest.ReceiverAccount), then
\* the sufficiency check and the update of the two local copies
GetReceiver(r) ==
  /\ pc[r] = "getReceiver"
  /\ LET res == GetUserByAccount(users, transferRequest[r].ReceiverAccount)
         amount == transferRequest[r].Amount
     IN IF res.err
          THEN Respond(r, "Receiver not found") /\ UNCHANGED <<sender, receiver>>
          ELSE IF Insufficient(sender[r], amount)
            THEN /\ Respond(r, "Insufficient credit")
                 /\ receiver' = [receiver EXCEPT ![r] = res.user]
                 /\ UNCHANGED sender
            ELSE /\ sender' = [sender EXCEPT ![r].Credit = @ - amount]
                 /\ receiver' = [receiver EXCEPT ![r] =
                                  [res.user EXCEPT !.Credit = @ + amount]]
                 /\ pc' = [pc EXCEPT ![r] = "saveSender"]
                 /\ UNCHANGED response
  /\ solo' = Interleave(r)
  /\ before' = Forget(r)
  /\ UNCHANGED <<users, transactions, transferRequest, saved, updateVars>>

\* variant of SaveSender: the writes are made under one lock, so a request
\* waits while another request is between its sender save and its response
SaveSenderWaits(r) ==
  /\ pc[r] = "saveSender"
  /\ \A q \in Reqs \ {r} : pc[q] \notin {"saveReceiver", "createTransaction"}
  /\ \E ok \in BOOLEAN :
       IF ok
         THEN /\ users' = Save(users, sender[r])
              /\ sender' = [sender EXCEPT ![r].ID = SaveID(users, sender[r])]
              /\ saved' = [saved EXCEPT ![r] = @ \cup {"sender"}]
              /\ pc' = [pc EXCEPT ![r] = "saveReceiver"]
              /\ UNCHANGED response
         ELSE /\ Respond(r, "Failed to update sender")
              /\ UNCHANGED <<users, sender, saved>>
  /\ solo' = Interleave(r)
  /\ before' = Forget(r)
  /\ UNCHANGED <<transactions, transferRequest, receiver, updateVars>>

\* variant of SaveSender: the error of the save is not looked at
SaveSenderIgnoreError(r) ==
  /\ pc[r] = "saveSender"
  /\ \E ok \in BOOLEAN :
       /\ pc' = [pc EXCEPT ![r] = "saveReceiver"]
       /\ UNCHANGED response
       /\ IF ok
            THEN /\ users' = Save(users, sender[r])
                 /\ sender' = [sender EXCEPT ![r].ID = SaveID(users, sender[r])]
                 /\ saved' = [saved EXCEPT ![r] = @ \cup {"sender"}]
            ELSE UNCHANGED <<users, sender, saved>>
  /\ solo' = Interleave(r)
  /\ before' = Forget(r)
  /\ UNCHANGED <<transactions, transferRequest, receiver, updateVars>>

\* err = database.DB.Save(&sender).Error
SaveSender(r) ==
  /\ pc[r] = "saveSender"
  /\ \E ok \in BOOLEAN :
       IF ok
         THEN /\ users' = Save(users, sender[r])
              /\ sender' = [sender EXCEPT ![r].ID = SaveID(users, sender[r])]
              /\ saved' = [saved EXCEPT ![r] = @ \cup {"sender"}]
              /\ pc' = [pc EXCEPT ![r] = "saveReceiver"]
              /\ UNCHANGED response
         ELSE /\ Respond(r, "Failed to update sender")
              /\ UNCHANGED <<users, sender, saved>>
  /\ solo' = Interleave(r)
  /\ before' = Forget(r)
  /\ UNCHANGED <<transactions, transferRequest, receiver, updateVars>>

\* variant of SaveReceiver: a receiver that is the sender is not written again
SaveReceiverSkipSelf(r) ==
  /\ pc[r] = "saveReceiver"
  /\ \E ok \in BOOLEAN :
       IF ok
         THEN /\ users' = IF receiver[r].ID = sender[r].ID
                            THEN users ELSE Save(users, receiver[r])
              /\ receiver' = [receiver EXCEPT ![r].ID = SaveID(users, receiver[r])]
              /\ saved' = [saved EXCEPT ![r] = @ \cup {"receiver"}]
              /\ pc' = [pc EXCEPT ![r] = "createTransaction"]
              /\ UNCHANGED response
         ELSE /\ Respond(r, "Failed to update receiver")
              /\ UNCHANGED <<users, receiver, saved>>
  /\ solo' = Interleave(r)
  /\ before' = Forget(r)
  /\ UNCHANGED <<transactions, transferRequest, sender, updateVars>>

\* err = database.DB.Save(&receiver).Error
SaveReceiver(r) ==
  /\ pc[r] = "saveReceiver"
  /\ \E ok \in BOOLEAN :
       IF ok
         THEN /\ users' = Save(users, receiver[r])
              /\ receiver' = [receiver EXCEPT ![r].ID = SaveID(users, receiver[r])]
              /\ saved' = [saved EXCEPT ![r] = @ \cup {"receiver"}]
              /\ pc' = [pc EXCEPT ![r] = "createTransaction"]
              /\ UNCHANGED response
         ELSE /\ Respond(r, "Failed to update receiver")
              /\ UNCHANGED <<users, receiver, saved>>
  /\ solo' = Interleave(r)
  /\ before' = Forget(r)
  /\ UNCHANGED <<transactions, transferRequest, sender, updateVars>>

\* variant of the record: the two ids are exchanged
TransactionSwapped(r) ==
  [SenderID |-> receiver[r].ID, ReceiverID |-> sender[r].ID,
   Amount |-> transferRequest[r].Amount, by |-> r]

\* models.Transaction{SenderID, ReceiverID, Amount}; by is history: the
\* request that created the record
Transaction(r) ==
  [SenderID |-> sender[r].ID, ReceiverID |-> receiver[r].ID,
   Amount |-> transferRequest[r].Amount, by |-> r]

\* variant of CreateTransaction: a failed append is answered with success
CreateTransactionIgnoreError(r) ==
  /\ pc[r] = "createTransaction"
  /\ \E ok \in BOOLEAN :
       /\ Respond(r, "Transfer successful")
       /\ IF ok
            THEN /\ transactions' = Append(transactions, Transaction(r))
                 /\ saved' = [saved EXCEPT ![r] = @ \cup {"transaction"}]
            ELSE UNCHANGED <<transactions, saved>>
  /\ solo' = Interleave(r)
  /\ before' = Forget(r)
  /\ UNCHANGED <<users, transferRequest, sender, receiver, updateVars>>

\* err = database.DB.Create(&transaction).Error, then the success response
\* (written by the same step: nothing shared is touched in between)
CreateTransaction(r) ==
  /\ pc[r] = "createTransaction"
  /\ \E ok \in BOOLEAN :
       IF ok
         THEN /\ transactions' = Append(transactions, Transaction(r))
              /\ saved' = [saved EXCEPT ![r] = @ \cup {"transaction"}]
              /\ Respond(r, "Transfer successful")
         ELSE /\ Respond(r, "Failed to record transaction")
              /\ UNCHANGED <<transactions, saved>>
  /\ solo' = Interleave(r)
  /\ before' = Forget(r)
  /\ UNCHANGED <<users, transferRequest, sender, receiver, updateVars>>

TransferCredit(r) ==
  \/ GetSender(r)
  \/ GetReceiver(r)
  \/ SaveSender(r)
  \/ SaveReceiver(r)
  \/ CreateTransaction(r)

Next == \E r \in Reqs : TransferCredit(r)

Spec == Init /\ [][Next]_vars

TypeOK ==
  /\ \A i \in DOMAIN users : users[i].Credit \in Int
  /\ \A r \in Reqs : pc[r] \in {"idle", "getReceiver", "saveSender",
                                "saveReceiver", "createTransaction", "done"}

\* ------------------------------------------------------------ vocabulary
Done(r) == pc[r] = "done"
AllDone == \A r \in Reqs : Done(r)
Succeeded(r) == response[r] = "Transfer successful"
PersistenceFailures ==
  {"Failed to update sender", "Failed to update receiver", "Failed to record transaction"}
ValidationFailures ==
  {"Bad request", "Sender not found", "Receiver not found", "Insufficient credit"}
AllEffects == {"sender", "receiver", "transaction"}
RecordsBy(r) == {i \in 1..Len(transactions) : transactions[i].by = r}

\* ----------------------------------------------------------------- C1
\* C1: once every request has completed, the sum of the balances of all
\* accounts equals the sum before the requests started.
CreditConserved ==
  AllDone => TotalCredit(users) = TotalCredit(InitialUsers)

\* ----------------------------------------------------------------- C2
\* C2: in every reachable state every account's stored balance is >= 0.
BalancesNonNegative ==
  \A i \in DOMAIN users : users[i].Credit >= 0

\* ----------------------------------------------------------------- C3
\* C3: with A = 100 and B = 0 and two transfers of 60 from A to B as the only
\* requests, no persistence call failing, exactly one request succeeds, the
\* other fails with insufficient credit, and the final balances are A = 40
\* and B = 60.
TransferAB60 == [valid |-> TRUE, SenderAccount |-> 1, ReceiverAccount |-> 2, Amount |-> 60]

NoDoubleSpend ==
  \A r1, r2 \in Reqs :
    ( /\ r1 # r2
      /\ InitialCredit[1] = 100 /\ InitialCredit[2] = 0
      /\ Done(r1) /\ Done(r2)
      /\ transferRequest[r1] = TransferAB60 /\ transferRequest[r2] = TransferAB60
      /\ \A q \in Reqs \ {r1, r2} : pc[q] = "idle"
      /\ response[r1] \notin PersistenceFailures
      /\ response[r2] \notin PersistenceFailures )
    => /\ Succeeded(r1) # Succeeded(r2)
       /\ \E q \in {r1, r2} : response[q] = "Insufficient credit"
       /\ users[1].Credit = 40 /\ users[2].Credit = 60

\* ----------------------------------------------------------------- C4
\* C4 (as stated): a request run without interleaving whose two references
\* resolve to existing accounts, with 0 < amount <= sender balance and every
\* persistence call succeeding, reports success, leaves the sender at its
\* previous balance minus amount and the receiver at its previous balance
\* plus amount, and appends exactly one record (sender id, receiver id,
\* amount).
ValidTransfer(r) ==
  /\ Done(r) /\ solo[r]
  /\ transferRequest[r].valid
  /\ transferRequest[r].SenderAccount \in DOMAIN before[r].users
  /\ transferRequest[r].ReceiverAccount \in DOMAIN before[r].users
  /\ 0 < transferRequest[r].Amount
  /\ transferRequest[r].Amount <= before[r].users[transferRequest[r].SenderAccount].Credit
  /\ response[r] \notin PersistenceFailures

TransferPost(r) ==
  LET s == transferRequest[r].SenderAccount
      t == transferRequest[r].ReceiverAccount
      amount == transferRequest[r].Amount
  IN /\ Succeeded(r)
     /\ users[s].Credit = before[r].users[s].Credit - amount
     /\ users[t].Credit = before[r].users[t].Credit + amount
     /\ Len(transactions) = before[r].ntx + 1
     /\ RecordsBy(r) = {Len(transactions)}
     /\ transactions[Len(transactions)].SenderID = s
     /\ transactions[Len(transactions)].ReceiverID = t
     /\ transactions[Len(transactions)].Amount = amount

ValidTransferPostAnyPair ==
  \A r \in Reqs : ValidTransfer(r) => TransferPost(r)

\* C4 (amended): the same, for a request whose two references resolve to two
\* distinct existing accounts.
ValidTransferPost ==
  \A r \in Reqs :
    (ValidTransfer(r) /\ transferRequest[r].SenderAccount # transferRequest[r].ReceiverAccount)
    => TransferPost(r)

\* a transfer of the sender's whole balance, run alone, after an earlier
\* transfer has changed the store
ValidTransferWitness ==
  \E r \in Reqs :
    /\ ValidTransfer(r)
    /\ transferRequest[r].SenderAccount # transferRequest[r].ReceiverAccount
    /\ transferRequest[r].Amount = before[r].users[transferRequest[r].SenderAccount].Credit
    /\ before[r].ntx = 1
    /\ Succeeded(r)

\* ----------------------------------------------------------------- C5
\* C5: every request with amount <= 0 fails with an invalid-amount error,
\* writes nothing, and every record of the log has amount > 0.
InvalidAmountRejected ==
  /\ \A r \in Reqs :
       (Done(r) /\ transferRequest[r].valid /\ transferRequest[r].Amount <= 0)
       => (response[r] = "Invalid amount" /\ saved[r] = {})
  /\ \A i \in 1..Len(transactions) : transactions[i].Amount > 0

\* ----------------------------------------------------------------- C6
\* C6: every request whose sender or receiver reference matches no account
\* fails with an account-not-found error for that reference and writes
\* nothing; GetUserByAccount reports not-found for such a reference.
UnknownAccountRejected ==
  \A r \in Reqs :
    (Done(r) /\ transferRequest[r].valid) =>
      /\ transferRequest[r].SenderAccount = UnknownRef
           => /\ response[r] = "Sender not found"
              /\ saved[r] = {}
              /\ GetUserByAccount(users, UnknownRef).err
      /\ (transferRequest[r].SenderAccount # UnknownRef
          /\ transferRequest[r].ReceiverAccount = UnknownRef)
           => /\ response[r] = "Receiver not found"
              /\ saved[r] = {}
              /\ GetUserByAccount(users, UnknownRef).err

\* ----------------------------------------------------------------- C7
\* C7: a request whose amount is greater than the sender balance it has read
\* ends at the check with "Insufficient credit"; that step changes neither the
\* users table nor the log, and such a request has persisted nothing.
InsufficientStep(r) ==
  ( /\ pc[r] = "getReceiver"
    /\ pc'[r] # "getReceiver"
    /\ transferRequest[r].Amount > sender[r].Credit )
  => /\ pc'[r] = "done"
     /\ response'[r] = "Insufficient credit"
     /\ users' = users
     /\ transactions' = transactions

InsufficientRejected ==
  /\ [][\A r \in Reqs : InsufficientStep(r)]_vars
  /\ [](\A r \in Reqs :
          response[r] = "Insufficient credit"
          => /\ transferRequest[r].Amount > sender[r].Credit
             /\ saved[r] = {}
             /\ RecordsBy(r) = {})

\* an existing sender asks for more than the balance left by an earlier transfer
InsufficientWitness ==
  \E r \in Reqs :
    /\ response[r] = "Insufficient credit"
    /\ transferRequest[r].SenderAccount = 1
    /\ sender[r].Credit = 40
    /\ transferRequest[r].Amount = 60
    /\ users[1].Credit = 40

\* ----------------------------------------------------------------- C8
\* C8: when a request has completed, either all three persisted effects
\* (sender saved, receiver saved, record appended) are present or none is.
AllOrNothing ==
  \A r \in Reqs : Done(r) => saved[r] \in {{}, AllEffects}

\* ----------------------------------------------------------------- C9
\* C9: the step that ends a request with a validation-stage failure writes
\* neither the users table nor the log, and a request that ended so has
\* persisted nothing: the store and the log are as they were before it.
ValidationFailureStep(r) ==
  (response[r] = "" /\ response'[r] \in ValidationFailures)
  => (users' = users /\ transactions' = transactions)

FailedValidationNoWrite ==
  /\ [][\A r \in Reqs : ValidationFailureStep(r)]_vars
  /\ [](\A r \in Reqs :
          response[r] \in ValidationFailures
          => /\ saved[r] = {}
             /\ RecordsBy(r) = {}
             /\ (solo[r] => (users = before[r].users /\ Len(transactions) = before[r].ntx)))

\* the same failing request repeated: all requests ended with insufficient
\* credit and the store and the log are still the initial ones
FailedValidationWitness ==
  /\ \A r \in Reqs : response[r] = "Insufficient credit"
  /\ \A r \in Reqs : transferRequest[r] = transferRequest[1]
  /\ users = InitialUsers
  /\ transactions = <<>>

\* ---------------------------------------------------------------- C10
\* C10: in every state the log has one record per request that has reported
\* success, each record carries the sender id, receiver id and amount of the
\* request that created it, that request has saved both accounts, and no
\* step modifies or removes an existing record.
RecordOf(i) ==
  LET t == transactions[i]
      r == t.by
  IN /\ Succeeded(r)
     /\ t.SenderID = sender[r].ID
     /\ t.ReceiverID = receiver[r].ID
     /\ transferRequest[r].SenderAccount \in InitialIDs
          => t.SenderID = transferRequest[r].SenderAccount
     /\ transferRequest[r].ReceiverAccount \in InitialIDs
          => t.ReceiverID = transferRequest[r].ReceiverAccount
     /\ t.Amount = transferRequest[r].Amount
     /\ {"sender", "receiver"} \subseteq saved[r]

AppendOnlyStep ==
  /\ Len(transactions') >= Len(transactions)
  /\ SubSeq(transactions', 1, Len(transactions)) = transactions

SaveSenderStep(r) ==
  (pc[r] = "saveSender" /\ pc'[r] # "saveSender")
  => \/ /\ pc'[r] = "saveReceiver"
        /\ "sender" \in saved'[r]
        /\ users' = Save(users, sender[r])
     \/ /\ pc'[r] = "done"
        /\ response'[r] = "Failed to update sender"
        /\ users' = users
        /\ transactions' = transactions
        /\ saved'[r] = {}

SenderSaveFailureClean ==
  /\ [][\A r \in Reqs : SaveSenderStep(r)]_vars
  /\ [](\A r \in Reqs :
          response[r] = "Failed to update sender"
          => /\ Done(r)
             /\ saved[r] = {}
             /\ RecordsBy(r) = {}
             /\ (solo[r] => (users = before[r].users /\ Len(transactions) = before[r].ntx)))

\* a transfer between two existing accounts, run alone, whose sender save failed
SenderSaveFailureWitness ==
  \E r \in Reqs :
    /\ response[r] = "Failed to update sender"
    /\ solo[r]
    /\ transferRequest[r] = TransferAB60
    /\ users = before[r].users

\* ---------------------------------------------------------------- C12
\* C12: in no reachable state has a request persisted its sender debit
\* without its receiver credit; for a request running alone on two existing
\* accounts the sum of the two stored balances is the sum before the transfer.
DebitCreditTogether ==
  \A r \in Reqs :
    /\ ("sender" \in saved[r]) => ("receiver" \in saved[r])
    /\ ( /\ solo[r]
         /\ transferRequest[r].valid
         /\ transferRequest[r].SenderAccount \in DOMAIN before[r].users
         /\ transferRequest[r].ReceiverAccount \in DOMAIN before[r].users
         /\ transferRequest[r].SenderAccount # transferRequest[r].ReceiverAccount )
       => users[transferRequest[r].SenderAccount].Credit
            + users[transferRequest[r].ReceiverAccount].Credit
          = before[r].users[transferRequest[r].SenderAccount].Credit
            + before[r].users[transferRequest[r].ReceiverAccount].Credit

\* ---------------------------------------------------------------- C13
\* C13: when the append fails after both saves have succeeded, the request
\* ends with "Failed to record transaction" (not success), the step leaves the
\* users table and the log unchanged, both saves stay persisted and the log
\* holds no record of that request.
AppendStep(r) ==
  (pc[r] = "createTransaction" /\ pc'[r] # "createTransaction")
  => /\ pc'[r] = "done"
     /\ users' = users
     /\ \/ /\ response'[r] = "Transfer successful"
           /\ transactions' = Append(transactions, Transaction(r))
        \/ /\ response'[r] = "Failed to record transaction"
           /\ transactions' = transactions

AppendFailureReported ==
  /\ [][\A r \in Reqs : AppendStep(r)]_vars
  /\ [](\A r \in Reqs :
          /\ response[r] = "Failed to record transaction"
             => /\ saved[r] = {"sender", "receiver"}
                /\ RecordsBy(r) = {}
          /\ Succeeded(r) => RecordsBy(r) # {}
          /\ ( /\ response[r] = "Failed to record transaction"
               /\ solo[r]
               /\ transferRequest[r].SenderAccount \in DOMAIN before[r].users
               /\ transferRequest[r].ReceiverAccount \in DOMAIN before[r].users
               /\ transferRequest[r].SenderAccount # transferRequest[r].ReceiverAccount )
             => /\ users[transferRequest[r].SenderAccount].Credit
                     = before[r].users[transferRequest[r].SenderAccount].Credit
                       - transferRequest[r].Amount
                /\ users[transferRequest[r].ReceiverAccount].Credit
                     = before[r].users[transferRequest[r].ReceiverAccount].Credit
                       + transferRequest[r].Amount
                /\ Len(transactions) = before[r].ntx)

\* a transfer of 60 from A to B, run alone: A = 40 and B = 60 are stored, the
\* append failed and the log is empty
AppendFailureWitness ==
  \E r \in Reqs :
    /\ response[r] = "Failed to record transaction"
    /\ solo[r]
    /\ transferRequest[r] = TransferAB60
    /\ users[1].Credit = 40 /\ users[2].Credit = 60
    /\ transactions = <<>>

\* ---------------------------------------------------------------- C15
\* C15: a request run without interleaving whose two references resolve to
\* the same existing account, with amount <= its balance and every save
\* succeeding, reports success, appends one record with sender id equal to
\* receiver id, and leaves the balance at its previous value plus amount.
SelfTransfer(r) ==
  /\ Done(r) /\ solo[r]
  /\ transferRequest[r].valid
  /\ transferRequest[r].SenderAccount = transferRequest[r].ReceiverAccount
  /\ transferRequest[r].SenderAccount \in DOMAIN before[r].users
  /\ transferRequest[r].Amount <= before[r].users[transferRequest[r].SenderAccount].Credit
  /\ response[r] \notin PersistenceFailures

SelfTransferAccepted ==
  \A r \in Reqs :
    SelfTransfer(r) =>
      LET a == transferRequest[r].SenderAccount
      IN /\ Succeeded(r)
         /\ users[a].Credit = before[r].users[a].Credit + transferRequest[r].Amount
         /\ Len(transactions) = before[r].ntx + 1
         /\ RecordsBy(r) = {Len(transactions)}
         /\ transactions[Len(transactions)].SenderID = a
         /\ transactions[Len(transactions)].ReceiverID = a
         /\ transactions[Len(transactions)].Amount = transferRequest[r].Amount

\* A sends 60 to itself: its balance goes from 100 to 160
SelfTransferWitness ==
  \E r \in Reqs :
    /\ SelfTransfer(r)
    /\ transferRequest[r].SenderAccount = 1
    /\ transferRequest[r].Amount = 60
    /\ before[r].users[1].Credit = 100
    /\ users[1].Credit = 160

\* ---------------------------------------------------------------- C16
\* C16: in every state where no request is in flight and no persistence call
\* has failed, each account's stored balance is its initial balance (0 for a
\* row created later) plus the amounts of the records naming it as receiver
\* minus the amounts of the records naming it as sender.
RECURSIVE LedgerDelta(_, _)
LedgerDelta(id, n) ==
  IF n = 0 THEN 0
  ELSE LedgerDelta(id, n - 1)
       + (IF transactions[n].ReceiverID = id THEN transactions[n].Amount ELSE 0)
       - (IF transactions[n].SenderID = id THEN transactions[n].Amount ELSE 0)

InitialBalance(id) == IF id \in InitialIDs THEN InitialCredit[id] ELSE 0

LedgerAgrees ==
  ( /\ \A r \in Reqs : pc[r] \in {"idle", "done"}
    /\ \A r \in Reqs : response[r] \notin PersistenceFailures )
  => \A id \in DOMAIN users :
       users[id].Credit = InitialBalance(id) + LedgerDelta(id, Len(transactions))

\* ---------------------------------------------------------------- C18
\* The steps of a request that has arrived.  The handler takes no lock and
\* has no loop: each step depends on the request's own position only, and
\* the goroutine of a request keeps being scheduled until it returns.
Proceed(r) ==
  \/ GetReceiver(r)
  \/ SaveSender(r)
  \/ SaveReceiver(r)
  \/ CreateTransaction(r)

SpecFair == Spec /\ \A r \in Reqs : WF_vars(Proceed(r))

Outcomes == ValidationFailures \cup PersistenceFailures \cup {"Transfer successful"}

\* C18: under fair scheduling every request that has arrived eventually
\* completes; a completed request has exactly one response, which never
\* changes afterwards; a request in flight can always take its next step
\* whatever the other requests are doing; and a request whose persistence call
\* has failed is done with the failure as its response.
EveryRequestTerminates ==
  /\ \A r \in Reqs : (pc[r] # "idle") ~> Done(r)
  /\ [](\A r \in Reqs :
          /\ Done(r) <=> response[r] \in Outcomes
          /\ ~Done(r) => response[r] = ""
          /\ pc[r] \notin {"idle", "done"} => ENABLED Proceed(r))
  /\ [][\A r \in Reqs : Done(r) => (Done(r)' /\ response'[r] = response[r])]_vars

\* a request has ended with a persistence failure while another one, which
\* arrived before it, is still in flight
TerminationWitness ==
  \E r, q \in Reqs :
    /\ q < r
    /\ response[r] \in PersistenceFailures
    /\ pc[q] = "saveReceiver"

\* ---------------------------------------------------------------- C17
\* UpdateUser, one request of the logged-in user userId.  Of the row only the
\* Credit column is modelled: the payload can set first name, last name,
\* account number and password, never Credit, so the local copy keeps the
\* Credit it was read with.

\* c.Get("user_id"), c.ShouldBindJSON(&payload), database.DB.First(&user, userId)
UpdateUserFirst ==
  /\ updatePc = "idle"
  /\ \E userId \in Refs :
       LET res == First(users, userId)
       IN IF res.err
            THEN /\ updatePc' = "done"
                 /\ UNCHANGED updateUser
            ELSE /\ updatePc' = "save"
                 /\ updateUser' = res.user
  /\ solo' = [q \in Reqs |-> FALSE]
  /\ before' = [q \in Reqs |-> NoSnapshot]
  /\ UNCHANGED <<users, transactions, transferVars>>

\* database.DB.Save(&user): the whole row is written; the result of the call
\* is not looked at
UpdateUserSave ==
  /\ updatePc = "save"
  /\ \E ok \in BOOLEAN :
       users' = IF ok THEN Save(users, updateUser) ELSE users
  /\ updatePc' = "done"
  /\ solo' = [q \in Reqs |-> FALSE]
  /\ before' = [q \in Reqs |-> NoSnapshot]
  /\ UNCHANGED <<transactions, transferVars, updateUser>>

UpdateUser == UpdateUserFirst \/ UpdateUserSave

NextUpdate == Next \/ UpdateUser

SpecUpdate == Init /\ [][NextUpdate]_vars

\* C17: no step of UpdateUser changes the stored credit of any account,
\* also when a TransferCredit request on the same account runs between its
\* read and its save.
UpdateKeepsCredit ==
  [][updatePc' # updatePc
     => /\ DOMAIN users' = DOMAIN users
        /\ \A id \in DOMAIN users : users'[id].Credit = users[id].Credit]_vars

\* ---------------------------------------------------------------- C14
\* Requests on pairwise disjoint accounts: request r addresses the accounts
\* 2r-1 (credit 100) and 2r (credit 0) only, as sender or receiver.
DisjointUsers ==
  [i \in 1..(2 * MaxReq) |-> [Credit |-> IF i % 2 = 1 THEN 100 ELSE 0]]

DisjointBodies(r) ==
  [valid : {TRUE}, SenderAccount : {2 * r - 1, 2 * r},
   ReceiverAccount : {2 * r - 1, 2 * r}, Amount : Amounts]

InitDisjoint ==
  /\ users = DisjointUsers
  /\ transactions = <<>>
  /\ pc = [r \in Reqs |-> "idle"]
  /\ transferRequest = [r \in Reqs |-> NoRequest]
  /\ sender = [r \in Reqs |-> ZeroUser]
  /\ receiver = [r \in Reqs |-> ZeroUser]
  /\ response = [r \in Reqs |-> ""]
  /\ saved = [r \in Reqs |-> {}]
  /\ solo = [r \in Reqs |-> FALSE]
  /\ before = [r \in Reqs |-> NoSnapshot]
  /\ updatePc = "idle"
  /\ updateUser = ZeroUser

GetSenderDisjoint(r) == Arrive(r, DisjointBodies(r))

NextDisjoint == \E r \in Reqs : GetSenderDisjoint(r) \/ Proceed(r)

SpecDisjoint == InitDisjoint /\ [][NextDisjoint]_vars

\* TransferCredit run from its first lookup to its response with no other
\* request in between, on the table tbl; resp names the persistence call that
\* fails, if any.  The result is the table and the response.
Alone(tbl, body, resp) ==
  LET s == GetUserByAccount(tbl, body.SenderAccount).user
      t == GetUserByAccount(tbl, body.ReceiverAccount).user
      s2 == [s EXCEPT !.Credit = @ - body.Amount]
      t2 == [t EXCEPT !.Credit = @ + body.Amount]
      tbl1 == Save(tbl, s2)
      tbl2 == Save(tbl1, t2)
  IN IF ~body.valid
       THEN [users |-> tbl, response |-> "Bad request"]
     ELSE IF Insufficient(s, body.Amount)
       THEN [users |-> tbl, response |-> "Insufficient credit"]
     ELSE IF resp = "Failed to update sender"
       THEN [users |-> tbl, response |-> resp]
     ELSE IF resp = "Failed to update receiver"
       THEN [users |-> tbl1, response |-> resp]
     ELSE IF resp = "Failed to record transaction"
       THEN [users |-> tbl2, response |-> resp]
     ELSE [users |-> tbl2, response |-> "Transfer successful"]

\* the requests of order run one after the other, each with the persistence
\* failure it met; ok: each ends with the response it has given
RECURSIVE RunInOrder(_, _)
RunInOrder(tbl, order) ==
  IF order = <<>> THEN [users |-> tbl, ok |-> TRUE]
  ELSE LET r == Head(order)
           a == Alone(tbl, transferRequest[r], response[r])
           rest == RunInOrder(a.users, Tail(order))
       IN [users |-> rest.users, ok |-> rest.ok /\ a.response = response[r]]

Ascending == [i \in 1..MaxReq |-> i]
Descending == [i \in 1..MaxReq |-> MaxReq + 1 - i]

\* C14: for requests on pairwise disjoint existing accounts, a request in
\* flight can always take its next step whatever the others are doing, and
\* once all have completed the users table and every response are those of
\* the requests run one after the other, in either order.
DisjointIndependent ==
  /\ \A r \in Reqs : pc[r] \notin {"idle", "done"} => ENABLED Proceed(r)
  /\ AllDone =>
       /\ RunInOrder(DisjointUsers, Ascending) = [users |-> users, ok |-> TRUE]
       /\ RunInOrder(DisjointUsers, Descending) = [users |-> users, ok |-> TRUE]

\* all requests moved 60 between their two accounts, none of them ran alone,
\* and one of them failed at the receiver save
DisjointWitness ==
  /\ AllDone
  /\ \A r \in Reqs :
       /\ transferRequest[r].SenderAccount = 2 * r - 1
       /\ transferRequest[r].ReceiverAccount = 2 * r
       /\ transferRequest[r].Amount = 60
       /\ ~solo[r]
  /\ response[1] = "Failed to update receiver"
  /\ \A r \in Reqs \ {1} : Succeeded(r)
====
